---- MODULE Spec2Model ----
(***************************************************************************)
(* State-machine model of the STOCHASTIX-TWIN simulation engine            *)
(* (backend/simulation): run_single with its SimPy event queue, the daily  *)
(* process, the arrival processes, the actors, the (s,S) policy and the    *)
(* samplers' validation.                                                   *)
(*                                                                         *)
(* Time is counted in ticks, TicksPerDay ticks to one simulated day, so    *)
(* that lead times that are a fraction of a day are representable.         *)
(* Probabilities are counted in percent.  A float KPI that is a quotient   *)
(* of integers is kept as the pair [num, den].                             *)
(***************************************************************************)
EXTENDS Integers, Sequences, FiniteSets, TLC

\* ------------------------------------------------------------------ bounds
MaxDays == 2
MaxDemand == 2
MaxLead == 3
MaxLevel == 3
MaxReplications == 2
MaxJobs == 1
TicksPerDay == 2

Min(a, b) == IF a <= b THEN a ELSE b
Max(a, b) == IF a >= b THEN a ELSE b

\* ------------------------------------------------------------------ inputs
\* Draws of the random source: a Poisson demand, a lognormal lead time (in
\* ticks, strictly positive) and a uniform number in [0,100) percent.
DemandDraws == 0..MaxDemand
LeadDraws == 1..MaxLead
UniformDraws == {0, 50}

NoPeaks == << >>
PeakDayOne == << [start_day |-> 1, end_day |-> 1, multiplier |-> 2] >>

\* SimulationConfig.seed: Optional[int], None by default.
NoSeed == [present |-> FALSE, value |-> 0]
Seed(n) == [present |-> TRUE, value |-> n]

\* SimulationConfig: the fields run_single and monte_carlo read.
BaseConfig ==
    [days |-> 1, demand_lambda_per_day |-> 1, demand_peaks |-> NoPeaks,
     s_store |-> 1, S_store |-> 3, s_dc |-> 1, S_dc |-> 4,
     initial_on_hand_store |-> 2, initial_on_hand_dc |-> 3,
     lead_time_mean_days |-> TicksPerDay, lead_time_std_days |-> 0,
     disruption_probability_per_shipment |-> 0, disruption_delay_days |-> 0,
     seed |-> NoSeed]

\* Configurations that satisfy every documented constraint of SimulationConfig.
ValidConfigs ==
    { [BaseConfig EXCEPT !.days = d,
                         !.demand_lambda_per_day = lam,
                         !.demand_peaks = pk,
                         !.initial_on_hand_store = ios,
                         !.initial_on_hand_dc = iod,
                         !.lead_time_mean_days = lt[1],
                         !.lead_time_std_days = lt[2],
                         !.disruption_probability_per_shipment = dis[1],
                         !.disruption_delay_days = dis[2]] :
        d \in 1..MaxDays, lam \in {0, 1}, pk \in {NoPeaks},
        ios \in {0, 2}, iod \in {0, 3},
        lt \in {<<TicksPerDay, 0>>, <<1, 1>>},
        dis \in {<<0, 0>>, <<50, 1>>} }

\* Configurations with exactly one field outside its documented range.
InvalidConfigs ==
    LET b == [BaseConfig EXCEPT !.days = MaxDays]
        quiet == [b EXCEPT !.demand_lambda_per_day = 0, !.s_store = 0, !.s_dc = 0]
    IN  UNION { { [c EXCEPT !.s_store = 4],
                  [c EXCEPT !.s_dc = 5],
                  [c EXCEPT !.demand_lambda_per_day = -1],
                  [c EXCEPT !.lead_time_mean_days = 0],
                  [c EXCEPT !.lead_time_std_days = -1],
                  [c EXCEPT !.disruption_probability_per_shipment = -50],
                  [c EXCEPT !.disruption_probability_per_shipment = 150],
                  [c EXCEPT !.disruption_delay_days = -1] } :
                c \in {b, quiet, [b EXCEPT !.initial_on_hand_store = 0]} }

\* The ranges SimulationConfigIn declares for the fields of a configuration.
ValidConfig(cfg) ==
    /\ cfg.days >= 1
    /\ cfg.demand_lambda_per_day >= 0
    /\ \A i \in 1..Len(cfg.demand_peaks) : cfg.demand_peaks[i].multiplier > 0
    /\ cfg.initial_on_hand_store >= 0 /\ cfg.initial_on_hand_dc >= 0
    /\ cfg.lead_time_mean_days > 0 /\ cfg.lead_time_std_days >= 0
    /\ cfg.disruption_probability_per_shipment >= 0
    /\ cfg.disruption_probability_per_shipment <= 100
    /\ cfg.disruption_delay_days >= 0

\* A DC that starts with more stock than its order-up-to level.
OverstockedConfigs ==
    { [BaseConfig EXCEPT !.days = MaxDays, !.initial_on_hand_dc = BaseConfig.S_dc + 1] }

Configs ==
    ValidConfigs \cup InvalidConfigs \cup OverstockedConfigs
        \cup {[BaseConfig EXCEPT !.days = MaxDays, !.demand_peaks = PeakDayOne]}

VARIABLES
    config,      \* the SimulationConfig of the run
    now,         \* environment.now, in ticks
    queue,       \* the environment's event queue, in order of insertion (event id)
    store,       \* Store: its InventoryState and counters
    dc,          \* DistributionCenter: its InventoryState and counter
    day,         \* daily_process: the loop variable
    pc,          \* daily_process: its position
    timeseries,  \* the rows recorded so far
    dayLog,      \* statements and random draws executed by the current day, in order
    status,      \* run_single: "running", "returned" or "raised"
    kpis,        \* the KPIs of the returned SimulationResult
    call,        \* a direct call of order_up_to_sS: its arguments and its outcome
    mc,          \* a call of monte_carlo: its arguments, its locals and its outcome
    api          \* the API process: the job registry, the job threads, the requests

vars == <<config, now, queue, store, dc, day, pc, timeseries, dayLog, status, kpis, call, mc, api>>

\* The variables run_single does not touch, and those it owns.
harness == <<call, mc, api>>
run == <<config, now, queue, store, dc, day, pc, timeseries, dayLog, status, kpis>>

\* ------------------------------------------------------------------ actors
\* The position without the pipeline quantity.
inventory_position_NoPipeline(inv) == inv.on_hand - inv.backorder

\* InventoryState.inventory_position
inventory_position(inv) == inv.on_hand + inv.on_order - inv.backorder

\* Store.consume_demand, with a stock-out counted by the unmet quantity.
consume_demand_CountsUnits(s, demand_qty) ==
    LET qty == Max(0, demand_qty)
        fulfilled == Min(s.on_hand, qty)
        unmet == qty - fulfilled
    IN  [s EXCEPT !.demand_units = @ + qty,
                  !.on_hand = @ - fulfilled,
                  !.fulfilled_units = @ + fulfilled,
                  !.backorder = @ + unmet,
                  !.stockout_days = @ + unmet]

\* Store.consume_demand, with max written for min.
consume_demand_MaxSlip(s, demand_qty) ==
    LET qty == Max(0, demand_qty)
        fulfilled == Max(s.on_hand, qty)
        unmet == qty - fulfilled
    IN  [s EXCEPT !.demand_units = @ + qty,
                  !.on_hand = @ - fulfilled,
                  !.fulfilled_units = @ + fulfilled,
                  !.backorder = IF unmet > 0 THEN @ + unmet ELSE @,
                  !.stockout_days = IF unmet > 0 THEN @ + 1 ELSE @]

\* Store.consume_demand, without the clamp of the quantity to >= 0.
consume_demand_NoClamp(s, demand_qty) ==
    LET qty == demand_qty
        fulfilled == Min(s.on_hand, qty)
        unmet == qty - fulfilled
    IN  [s EXCEPT !.demand_units = @ + qty,
                  !.on_hand = @ - fulfilled,
                  !.fulfilled_units = @ + fulfilled,
                  !.backorder = IF unmet > 0 THEN @ + unmet ELSE @,
                  !.stockout_days = IF unmet > 0 THEN @ + 1 ELSE @]

\* Store.consume_demand
consume_demand(s, demand_qty) ==
    LET qty == Max(0, demand_qty)
        fulfilled == Min(s.on_hand, qty)
        unmet == qty - fulfilled
    IN  [s EXCEPT !.demand_units = @ + qty,
                  !.on_hand = @ - fulfilled,
                  !.fulfilled_units = @ + fulfilled,
                  !.backorder = IF unmet > 0 THEN @ + unmet ELSE @,
                  !.stockout_days = IF unmet > 0 THEN @ + 1 ELSE @]

\* Store.receive, adding the whole quantity to on_hand.
store_receive_OnHandFirst(s, quantity) ==
    IF quantity <= 0 THEN s
    ELSE [s EXCEPT !.on_hand = @ + quantity]

\* Store.receive
store_receive(s, quantity) ==
    IF quantity <= 0 THEN s
    ELSE LET used == IF s.backorder > 0 THEN Min(s.backorder, quantity) ELSE 0
         IN  [s EXCEPT !.backorder = @ - used,
                       !.on_hand = @ + (quantity - used)]

\* DistributionCenter.receive
dc_receive(d, quantity) ==
    IF quantity <= 0 THEN d ELSE [d EXCEPT !.on_hand = @ + quantity]

\* DistributionCenter.ship_to_store, shipping the requested quantity unchecked.
ship_to_store_NoMin(d, quantity) ==
    IF quantity <= 0 THEN [dc |-> d, shipped |-> 0]
    ELSE [dc |-> [d EXCEPT !.on_hand = @ - quantity], shipped |-> quantity]

\* DistributionCenter.ship_to_store: the DC after the call and the value returned.
ship_to_store(d, quantity) ==
    IF quantity <= 0 THEN [dc |-> d, shipped |-> 0]
    ELSE LET shipped == Min(d.on_hand, quantity)
         IN  [dc |-> [d EXCEPT !.on_hand = @ - shipped], shipped |-> shipped]

\* ------------------------------------------------------------------ policy
\* order_up_to_sS raises ValueError
order_up_to_sS_raises(s, S) == s > S

\* order_up_to_sS, ordering a fixed lot S whatever the position is.
order_up_to_sS_Lot(ip, s, S) ==
    IF ip <= s THEN S ELSE 0

\* order_up_to_sS: the value returned when it does not raise.
order_up_to_sS(ip, s, S) ==
    IF ip <= s THEN Max(0, S - ip) ELSE 0

\* ---------------------------------------------------------------- samplers
\* _demand_multiplier_for_day
RECURSIVE PeakProduct(_, _, _)
PeakProduct(peaks, d, i) ==
    IF i > Len(peaks) THEN 1
    ELSE (IF peaks[i].start_day <= d /\ d <= peaks[i].end_day
          THEN peaks[i].multiplier ELSE 1) * PeakProduct(peaks, d, i + 1)

demand_multiplier_for_day(cfg, d) == PeakProduct(cfg.demand_peaks, d, 1)

\* poisson_demand raises ValueError
poisson_demand_raises(lam) == lam < 0

\* poisson_demand: the draws a Poisson(lam) variate can take (0 alone when lam = 0).
poisson_demand_values(lam) == IF lam = 0 THEN {0} ELSE DemandDraws

\* _lognormal_mu_sigma_from_mean_std raises ValueError
lognormal_raises(mean, std) == mean <= 0 \/ std < 0

\* lognormal_days reads the random source (sigma is not 0)
lognormal_draws(mean, std) == std # 0

\* lognormal_days: the value returned, given the draw the source would deliver.
lognormal_days(mean, std, draw) == IF std = 0 THEN mean ELSE draw

\* disruption_delay raises ValueError
disruption_raises(probability, delay) ==
    probability < 0 \/ probability > 100 \/ delay < 0

\* disruption_delay reads the random source on every call.
disruption_draws_Always(probability, delay) == TRUE

\* disruption_delay reads the random source (no short-circuit)
disruption_draws(probability, delay) == ~(probability = 0 \/ delay = 0)

\* disruption_delay: the value returned, given the uniform draw u.
disruption_delay(probability, delay, u) ==
    IF probability = 0 \/ delay = 0 THEN 0
    ELSE IF u < probability THEN delay ELSE 0

\* --------------------------------------------------------- the event queue
\* An event of the SimPy environment.  The queue is kept in order of
\* insertion, which is the order of the event ids; the environment processes
\* the event with the least (time, priority, event id).
\* An arrival also carries the statement of daily_process that shipped it.
Event(t, urg, kind, recv, qty, delay) ==
    [time |-> t, urgent |-> urg, kind |-> kind, recv |-> recv, qty |-> qty, delay |-> delay,
     by |-> "none"]

Earlier(e, f) == e.time < f.time \/ (e.time = f.time /\ e.urgent /\ ~f.urgent)

\* The index of the event Environment.step pops.
HeadIndex(q) ==
    CHOOSE i \in 1..Len(q) :
        \A j \in 1..Len(q) : /\ ~Earlier(q[j], q[i])
                             /\ (j < i => Earlier(q[i], q[j]))

Remove(q, i) == [j \in 1..(Len(q) - 1) |-> IF j < i THEN q[j] ELSE q[j + 1]]

HeadEvent == queue[HeadIndex(queue)]
RestEvents == Remove(queue, HeadIndex(queue))

\* The environment is between two events: no process is executing.
Stepping == status = "running" /\ pc \in {"start", "suspended", "failed"} /\ queue # << >>

\* ------------------------------------------------------------- run_single
\* The mutable state a statement of daily_process works on.
Ctx == [store |-> store, dc |-> dc, queue |-> queue, log |-> dayLog, raised |-> FALSE]

AddOnOrder(m, receiver, quantity) ==
    IF receiver = "store"
    THEN [m EXCEPT !.store.on_order = @ + quantity]
    ELSE [m EXCEPT !.dc.on_order = @ + quantity]

\* The statement that calls schedule_inbound_shipment: the last one logged
\* (line 107 after ship_backorder, line 119 after ship_order, line 133 after
\* policy_dc).
Caller(log) == IF log = << >> THEN "none" ELSE log[Len(log)]

\* schedule_inbound_shipment: on_order is raised, the lead time and then the
\* disruption delay are sampled (either may raise), and the arrival process
\* is registered with the environment (its Initialize event is urgent, now).
schedule_inbound_shipment(m, receiver, quantity, leadDraw, u) ==
    IF quantity <= 0 THEN m
    ELSE LET m1 == AddOnOrder(m, receiver, quantity)
         IN  IF lognormal_raises(config.lead_time_mean_days, config.lead_time_std_days)
             THEN [m1 EXCEPT !.raised = TRUE]
             ELSE LET m2 == IF lognormal_draws(config.lead_time_mean_days,
                                               config.lead_time_std_days)
                            THEN [m1 EXCEPT !.log = Append(@, "lead_draw")] ELSE m1
                  IN  IF disruption_raises(config.disruption_probability_per_shipment,
                                           config.disruption_delay_days)
                      THEN [m2 EXCEPT !.raised = TRUE]
                      ELSE LET m3 == IF disruption_draws(config.disruption_probability_per_shipment,
                                                         config.disruption_delay_days)
                                     THEN [m2 EXCEPT !.log = Append(@, "disruption_draw")]
                                     ELSE m2
                               lead == lognormal_days(config.lead_time_mean_days,
                                                      config.lead_time_std_days, leadDraw)
                                       + disruption_delay(config.disruption_probability_per_shipment,
                                                          config.disruption_delay_days, u)
                           IN  [m3 EXCEPT !.log = Append(@, "schedule"),
                                          !.queue = Append(@, [Event(now, TRUE, "init_arrival",
                                                                     receiver, quantity, lead)
                                                                   EXCEPT !.by = Caller(m.log)])]

\* The order of the statements of one iteration of daily_process, with the DC
\* evaluated before the store is served.
StepAfter_DcFirst(p) ==
    CASE p = "demand" -> "clear"
      [] p = "clear" -> "dc_sS"
      [] p = "dc_sS" -> "store_sS"
      [] p = "store_sS" -> "record"
      [] p = "record" -> "yield"
      [] OTHER -> "suspended"

\* The order of the statements of one iteration of daily_process.
StepAfter(p) ==
    CASE p = "demand" -> "clear"
      [] p = "clear" -> "store_sS"
      [] p = "store_sS" -> "dc_sS"
      [] p = "dc_sS" -> "record"
      [] p = "record" -> "yield"
      [] OTHER -> "suspended"

\* A statement of daily_process leaves the context m: on an exception the
\* process fails and SimPy schedules the failed process event (normal, now),
\* which raises from Environment.step when it is processed.
Leave(m) ==
    /\ store' = m.store
    /\ dc' = m.dc
    /\ dayLog' = m.log
    /\ IF m.raised
       THEN /\ pc' = "failed"
            /\ queue' = Append(m.queue, Event(now, FALSE, "process_failed", "none", 0, 0))
       ELSE /\ pc' = StepAfter(pc)
            /\ queue' = m.queue
    /\ UNCHANGED <<harness, config, now, day, timeseries, status, kpis>>

\* daily_process, lines 99-100: the day's demand is drawn and consumed.
DemandStep ==
    /\ status = "running" /\ pc = "demand"
    /\ LET lam == config.demand_lambda_per_day * demand_multiplier_for_day(config, day)
       IN  IF poisson_demand_raises(lam)
           THEN Leave([Ctx EXCEPT !.raised = TRUE])
           ELSE \E d \in poisson_demand_values(lam) :
                    Leave([Ctx EXCEPT !.store = consume_demand(store, d),
                                      !.log = dayLog \o <<"demand_draw", "consume_demand">>])

\* daily_process, lines 102-107: the DC ships what the store is owed.
ClearBackorderStep ==
    /\ status = "running" /\ pc = "clear"
    /\ \E leadDraw \in LeadDraws, u \in UniformDraws :
        IF store.backorder > 0
        THEN LET r == ship_to_store(dc, store.backorder)
                 m == [Ctx EXCEPT !.dc = r.dc, !.log = Append(dayLog, "ship_backorder")]
             IN  Leave(IF r.shipped > 0
                       THEN schedule_inbound_shipment(m, "store", r.shipped, leadDraw, u)
                       ELSE m)
        ELSE Leave(Ctx)

\* The store's (s, S) step, counting an order only when the DC ships something.
StoreReplenishStep_CountsShipments ==
    /\ status = "running" /\ pc = "store_sS"
    /\ \E leadDraw \in LeadDraws, u \in UniformDraws :
        IF order_up_to_sS_raises(config.s_store, config.S_store)
        THEN Leave([Ctx EXCEPT !.raised = TRUE])
        ELSE LET q == order_up_to_sS(inventory_position(store), config.s_store, config.S_store)
                 m0 == [Ctx EXCEPT !.log = Append(dayLog, "policy_store")]
             IN  IF q > 0
                 THEN LET r == ship_to_store(dc, q)
                          m1 == [m0 EXCEPT !.store.orders_placed =
                                               IF r.shipped > 0 THEN @ + 1 ELSE @,
                                           !.dc = r.dc,
                                           !.log = Append(@, "ship_order")]
                          m2 == IF r.shipped > 0
                                THEN schedule_inbound_shipment(m1, "store", r.shipped, leadDraw, u)
                                ELSE m1
                          unshipped == q - r.shipped
                      IN  Leave(IF ~m2.raised /\ unshipped > 0
                                THEN [m2 EXCEPT !.store.backorder = @ + unshipped]
                                ELSE m2)
                 ELSE Leave(m0)

\* daily_process, lines 109-123: the store's (s, S) decision and its shipment.
StoreReplenishStep ==
    /\ status = "running" /\ pc = "store_sS"
    /\ \E leadDraw \in LeadDraws, u \in UniformDraws :
        IF order_up_to_sS_raises(config.s_store, config.S_store)
        THEN Leave([Ctx EXCEPT !.raised = TRUE])
        ELSE LET q == order_up_to_sS(inventory_position(store), config.s_store, config.S_store)
                 m0 == [Ctx EXCEPT !.log = Append(dayLog, "policy_store")]
             IN  IF q > 0
                 THEN LET r == ship_to_store(dc, q)
                          m1 == [m0 EXCEPT !.store.orders_placed = @ + 1,
                                           !.dc = r.dc,
                                           !.log = Append(@, "ship_order")]
                          m2 == IF r.shipped > 0
                                THEN schedule_inbound_shipment(m1, "store", r.shipped, leadDraw, u)
                                ELSE m1
                          unshipped == q - r.shipped
                      IN  Leave(IF ~m2.raised /\ unshipped > 0
                                THEN [m2 EXCEPT !.store.backorder = @ + unshipped]
                                ELSE m2)
                 ELSE Leave(m0)

\* daily_process, lines 125-133: the DC's (s, S) decision and its supply order.
DcReplenishStep ==
    /\ status = "running" /\ pc = "dc_sS"
    /\ \E leadDraw \in LeadDraws, u \in UniformDraws :
        IF order_up_to_sS_raises(config.s_dc, config.S_dc)
        THEN Leave([Ctx EXCEPT !.raised = TRUE])
        ELSE LET q == order_up_to_sS(inventory_position(dc), config.s_dc, config.S_dc)
                 m0 == [Ctx EXCEPT !.log = Append(dayLog, "policy_dc")]
             IN  IF q > 0
                 THEN Leave(schedule_inbound_shipment(
                                [m0 EXCEPT !.dc.orders_placed = @ + 1], "dc", q, leadDraw, u))
                 ELSE Leave(m0)

\* The row daily_process appends for the current day.
Row ==
    [day |-> day,
     store_on_hand |-> store.on_hand,
     store_backorder |-> store.backorder,
     store_on_order |-> store.on_order,
     dc_on_hand |-> dc.on_hand,
     dc_on_order |-> dc.on_order]

\* daily_process, lines 135-144: the timeseries row.
RecordStep ==
    /\ status = "running" /\ pc = "record"
    /\ timeseries' = Append(timeseries, Row)
    /\ dayLog' = Append(dayLog, "record")
    /\ pc' = StepAfter(pc)
    /\ UNCHANGED <<harness, config, now, queue, store, dc, day, status, kpis>>

\* daily_process, line 146: the process suspends on a timeout of one day.
YieldStep ==
    /\ status = "running" /\ pc = "yield"
    /\ queue' = Append(queue, Event(now + TicksPerDay, FALSE, "daily_timeout", "none", 0, 0))
    /\ dayLog' = Append(dayLog, "timeout")
    /\ pc' = StepAfter(pc)
    /\ UNCHANGED <<harness, config, now, store, dc, day, timeseries, status, kpis>>

\* Environment.step on the Initialize event of daily_process: the generator
\* starts and enters the loop (or is exhausted at once when days = 0).
StartDaily ==
    /\ Stepping /\ HeadEvent.kind = "init_daily"
    /\ now' = HeadEvent.time
    /\ queue' = RestEvents
    /\ day' = 0
    /\ pc' = IF config.days > 0 THEN "demand" ELSE "finished"
    /\ dayLog' = << >>
    /\ UNCHANGED <<harness, config, store, dc, timeseries, status, kpis>>

\* Environment.step on the daily timeout: the generator resumes with the next
\* value of range(config.days), or is exhausted.
ResumeDaily ==
    /\ Stepping /\ HeadEvent.kind = "daily_timeout"
    /\ now' = HeadEvent.time
    /\ queue' = RestEvents
    /\ IF day + 1 < config.days
       THEN day' = day + 1 /\ pc' = "demand"
       ELSE day' = day /\ pc' = "finished"
    /\ dayLog' = << >>
    /\ UNCHANGED <<harness, config, store, dc, timeseries, status, kpis>>

\* Environment.step on the Initialize event of an arrival_process: the
\* generator runs to its timeout, which is scheduled lead_time_days from now.
InitArrival ==
    /\ Stepping /\ HeadEvent.kind = "init_arrival"
    /\ now' = HeadEvent.time
    /\ queue' = Append(RestEvents,
                       [Event(HeadEvent.time + HeadEvent.delay, FALSE, "arrival",
                              HeadEvent.recv, HeadEvent.qty, 0)
                        EXCEPT !.by = HeadEvent.by])
    /\ UNCHANGED <<harness, config, store, dc, day, pc, timeseries, dayLog, status, kpis>>

\* The arrival is received and the pipeline quantity is left as it was.
Arrival_KeepsOnOrder ==
    /\ Stepping /\ HeadEvent.kind = "arrival"
    /\ now' = HeadEvent.time
    /\ queue' = RestEvents
    /\ IF HeadEvent.recv = "store"
       THEN /\ store' = store_receive(store, HeadEvent.qty)
            /\ dc' = dc
       ELSE /\ dc' = dc_receive(dc, HeadEvent.qty)
            /\ store' = store
    /\ UNCHANGED <<harness, config, day, pc, timeseries, dayLog, status, kpis>>

\* arrival_process after its timeout, lines 92-93.
Arrival ==
    /\ Stepping /\ HeadEvent.kind = "arrival"
    /\ now' = HeadEvent.time
    /\ queue' = RestEvents
    /\ IF HeadEvent.recv = "store"
       THEN /\ store' = store_receive([store EXCEPT !.on_order = @ - HeadEvent.qty], HeadEvent.qty)
            /\ dc' = dc
       ELSE /\ dc' = dc_receive([dc EXCEPT !.on_order = @ - HeadEvent.qty], HeadEvent.qty)
            /\ store' = store
    /\ UNCHANGED <<harness, config, day, pc, timeseries, dayLog, status, kpis>>

\* Environment.step on the failed process event: the exception leaves
\* environment.run and run_single.
Raise ==
    /\ Stepping /\ HeadEvent.kind = "process_failed"
    /\ now' = HeadEvent.time
    /\ queue' = RestEvents
    /\ status' = "raised"
    /\ UNCHANGED <<harness, config, store, dc, day, pc, timeseries, dayLog, kpis>>

RECURSIVE SumField(_, _, _)
SumField(rows, f, i) ==
    IF i > Len(rows) THEN 0 ELSE rows[i][f] + SumField(rows, f, i + 1)

\* The arithmetic mean of a field over the timeseries (0.0 when it is empty).
Mean(rows, f) ==
    IF Len(rows) > 0 THEN [num |-> SumField(rows, f, 1), den |-> Len(rows)]
    ELSE [num |-> 0, den |-> 1]

\* run_single, lines 151-172: the KPIs of the finished run.
ComputeKpis ==
    [service_level |-> IF config.days > 0
                       THEN [num |-> config.days - store.stockout_days, den |-> config.days]
                       ELSE [num |-> 1, den |-> 1],
     fill_rate |-> IF store.demand_units > 0
                   THEN [num |-> store.fulfilled_units, den |-> store.demand_units]
                   ELSE [num |-> 1, den |-> 1],
     demand_units |-> store.demand_units,
     fulfilled_units |-> store.fulfilled_units,
     stockout_days |-> store.stockout_days,
     avg_on_hand_store |-> Mean(timeseries, "store_on_hand"),
     avg_on_hand_dc |-> Mean(timeseries, "dc_on_hand"),
     avg_backorder_store |-> Mean(timeseries, "store_backorder"),
     total_orders_store |-> store.orders_placed,
     total_orders_dc |-> dc.orders_placed]

\* Environment.step on the `until` event: environment.run returns and
\* run_single computes the KPIs and returns the SimulationResult.
Return ==
    /\ Stepping /\ HeadEvent.kind = "until"
    /\ now' = HeadEvent.time
    /\ queue' = RestEvents
    /\ status' = "returned"
    /\ kpis' = ComputeKpis
    /\ UNCHANGED <<harness, config, store, dc, day, pc, timeseries, dayLog>>

NoKpis == [none |-> TRUE]
NoCall == [phase |-> "none"]
NoMonteCarlo == [phase |-> "none"]

\* The API process with no job and no request; `running` is the job whose
\* thread is executing its simulation (0 when there is none).
NoResponse == [kind |-> "none"]
NoApi == [jobs |-> << >>, threads |-> << >>, post |-> [pc |-> "idle", job |-> 0],
          response |-> NoResponse, running |-> 0]

\* environment.run(until=config.days - 1): the horizon one day short.
UntilTime_DayShort(cfg) == (cfg.days - 1) * TicksPerDay

\* environment.run(until=float(config.days)), line 149: the time of the `until` event.
UntilTime(cfg) == cfg.days * TicksPerDay

\* run_single, lines 58-62: the Store as constructed.
NewStore(cfg) ==
    [on_hand |-> cfg.initial_on_hand_store, backorder |-> 0, on_order |-> 0,
     demand_units |-> 0, fulfilled_units |-> 0, stockout_days |-> 0, orders_placed |-> 0]

\* run_single, lines 53-57: the DistributionCenter as constructed.
NewDistributionCenter(cfg) ==
    [on_hand |-> cfg.initial_on_hand_dc, backorder |-> 0, on_order |-> 0, orders_placed |-> 0]

\* run_single, lines 148-149: the queue holding the Initialize event of
\* daily_process and the `until` event of environment.run.
NewQueue(cfg) ==
    << Event(0, TRUE, "init_daily", "none", 0, 0),
       Event(UntilTime(cfg), TRUE, "until", "none", 0, 0) >>

\* run_single, lines 50-149: the actors are built, daily_process is
\* registered (its Initialize event is urgent, at time 0) and environment.run
\* schedules the `until` event (urgent, at time config.days).
Constructed ==
    /\ now = 0
    /\ queue = NewQueue(config)
    /\ store = NewStore(config)
    /\ dc = NewDistributionCenter(config)
    /\ day = 0
    /\ pc = "start"
    /\ timeseries = << >>
    /\ dayLog = << >>
    /\ status = "running"
    /\ kpis = NoKpis

Init ==
    /\ config \in Configs
    /\ Constructed
    /\ call = NoCall
    /\ mc = NoMonteCarlo
    /\ api = NoApi

Next ==
    \/ StartDaily
    \/ DemandStep
    \/ ClearBackorderStep
    \/ StoreReplenishStep
    \/ DcReplenishStep
    \/ RecordStep
    \/ YieldStep
    \/ ResumeDaily
    \/ InitArrival
    \/ Arrival
    \/ Raise
    \/ Return

Spec == Init /\ [][Next]_vars

\* ------------------------------------------------- order_up_to_sS, called alone
\* The arguments of a direct call of order_up_to_sS(inventory_position, s, S).
PolicyCalls ==
    [phase : {"called"}, ip : (0 - MaxLevel)..(MaxLevel + 1),
     s : (0 - 1)..MaxLevel, S : (0 - 1)..MaxLevel, result : {0}]

PolicyInit ==
    /\ config = BaseConfig
    /\ Constructed
    /\ call \in PolicyCalls
    /\ mc = NoMonteCarlo
    /\ api = NoApi

\* order_up_to_sS, lines 17-18: the guard raises ValueError.
PolicyRaise ==
    /\ call.phase = "called"
    /\ order_up_to_sS_raises(call.s, call.S)
    /\ call' = [call EXCEPT !.phase = "raised"]
    /\ UNCHANGED <<run, mc, api>>

\* order_up_to_sS, lines 19-21: the quantity is returned.
PolicyReturn ==
    /\ call.phase = "called"
    /\ ~order_up_to_sS_raises(call.s, call.S)
    /\ call' = [call EXCEPT !.phase = "returned",
                            !.result = order_up_to_sS(call.ip, call.s, call.S)]
    /\ UNCHANGED <<run, mc, api>>

PolicyNext == PolicyRaise \/ PolicyReturn

PolicySpec == PolicyInit /\ [][PolicyNext]_vars

\* ------------------------------------------------------------ monte_carlo
\* The base seeds a caller passes: none, or an integer.
BaseSeeds == {NoSeed, Seed(0), Seed(MaxLevel)}

\* The base configurations of the calls: one whose arrivals land within the
\* day, and one whose lead-time mean makes a replication fail when it ships.
MonteCarloConfigs ==
    { [c EXCEPT !.seed = sd] :
        c \in { [BaseConfig EXCEPT !.lead_time_mean_days = 1, !.lead_time_std_days = 1],
                [BaseConfig EXCEPT !.lead_time_mean_days = 0] },
        sd \in BaseSeeds }

NoResult == [none |-> TRUE]

\* monte_carlo rejects only a negative number of replications.
monte_carlo_raises_Negative(replications) == replications < 0

\* monte_carlo, lines 188-189: the guard on the number of replications.
monte_carlo_raises(replications) == replications <= 0

\* The seed of every replication is the base seed itself.
replication_seed_Base(cfg, i) == cfg.seed

\* monte_carlo, line 193: the seed of replication i.
replication_seed(cfg, i) ==
    IF cfg.seed.present THEN Seed(cfg.seed.value + i) ELSE NoSeed

\* The progress reported before the replication is counted.
progress_value_Before(i, replications) == [num |-> i, den |-> replications]

\* monte_carlo, line 197: the value passed to progress_cb after replication i.
progress_value(i, replications) == [num |-> i + 1, den |-> replications]

\* _set_job_fields: the fields of a registered job are updated under the lock.
set_job_progress(a, job_id, value) ==
    IF job_id \in 1..Len(a.jobs) THEN [a EXCEPT !.jobs[job_id].progress = value] ELSE a

\* run_job.progress_callback, lines 171-172: the callback the API passes to
\* monte_carlo stores the progress in the job of the calling thread.
progress_callback(a, value) ==
    IF a.running = 0 THEN a ELSE set_job_progress(a, a.running, value)

MonteCarloInit ==
    /\ config = BaseConfig
    /\ Constructed
    /\ call = NoCall
    /\ api = NoApi
    /\ \E cfg \in MonteCarloConfigs, r \in (0 - 1)..MaxReplications, cb \in BOOLEAN :
          mc = [phase |-> "called", config |-> cfg, replications |-> r, progress_cb |-> cb,
                i |-> 0, samples |-> << >>, runs |-> << >>, progress |-> << >>,
                result |-> NoResult]

\* monte_carlo, lines 188-189: ValueError on replications <= 0.
MonteCarloReject ==
    /\ mc.phase = "called"
    /\ monte_carlo_raises(mc.replications)
    /\ mc' = [mc EXCEPT !.phase = "raised"]
    /\ UNCHANGED <<run, call, api>>

\* monte_carlo, lines 192-194: the next iteration of the loop calls
\* run_single on a copy of the base configuration with the derived seed.
MonteCarloRunSingle ==
    /\ mc.phase \in {"called", "loop"}
    /\ ~monte_carlo_raises(mc.replications)
    /\ mc.i < mc.replications
    /\ LET cfg == [mc.config EXCEPT !.seed = replication_seed(mc.config, mc.i)]
       IN  /\ config' = cfg
           /\ now' = 0
           /\ queue' = NewQueue(cfg)
           /\ store' = NewStore(cfg)
           /\ dc' = NewDistributionCenter(cfg)
           /\ mc' = [mc EXCEPT !.phase = "replication", !.runs = Append(@, cfg)]
    /\ day' = 0
    /\ pc' = "start"
    /\ timeseries' = << >>
    /\ dayLog' = << >>
    /\ status' = "running"
    /\ kpis' = NoKpis
    /\ UNCHANGED <<call, api>>

\* A failing replication is skipped and the loop goes on.
MonteCarloFail_Skip ==
    /\ mc.phase = "replication" /\ status = "raised"
    /\ mc' = [mc EXCEPT !.phase = "loop", !.i = @ + 1]
    /\ UNCHANGED <<run, call, api>>

\* monte_carlo, line 194: the exception of run_single leaves monte_carlo.
MonteCarloFail ==
    /\ mc.phase = "replication" /\ status = "raised"
    /\ mc' = [mc EXCEPT !.phase = "raised"]
    /\ UNCHANGED <<run, call, api>>

\* monte_carlo, lines 195-197: run_single has returned; its KPIs are
\* appended and the progress callback, if any, is invoked.
MonteCarloCollect ==
    /\ mc.phase = "replication" /\ status = "returned"
    /\ mc' = [mc EXCEPT !.phase = "loop",
                        !.samples = Append(@, kpis),
                        !.progress = IF mc.progress_cb
                                     THEN Append(@, progress_value(mc.i, mc.replications))
                                     ELSE @,
                        !.i = @ + 1]
    /\ api' = IF mc.progress_cb
              THEN progress_callback(api, progress_value(mc.i, mc.replications))
              ELSE api
    /\ UNCHANGED <<run, call>>

\* monte_carlo, lines 199-206: the loop is exhausted; the summary is built
\* and the MonteCarloResult is returned.
MonteCarloReturn ==
    /\ mc.phase \in {"called", "loop"}
    /\ ~monte_carlo_raises(mc.replications)
    /\ mc.i >= mc.replications
    /\ mc' = [mc EXCEPT !.phase = "returned",
                        !.result = [config |-> mc.config,
                                    summary |-> [replications |-> mc.replications],
                                    samples |-> mc.samples]]
    /\ UNCHANGED <<run, call, api>>

\* A step of the replication in progress.
MonteCarloStep == mc.phase = "replication" /\ Next

MonteCarloNext ==
    \/ MonteCarloReject
    \/ MonteCarloRunSingle
    \/ MonteCarloStep
    \/ MonteCarloFail
    \/ MonteCarloCollect
    \/ MonteCarloReturn

MonteCarloSpec == MonteCarloInit /\ [][MonteCarloNext]_vars

\* ------------------------------------- actors and samplers, called alone
\* The configurations of the runs that accompany the direct calls.
CallRunConfigs ==
    { [BaseConfig EXCEPT !.days = MaxDays, !.initial_on_hand_store = ios,
                         !.lead_time_mean_days = lt[1], !.lead_time_std_days = lt[2]] :
        ios \in {0, 2}, lt \in {<<1, 1>>, <<0, 0>>} }

\* The Store and DistributionCenter states the direct calls start from.
StoreStates ==
    { [NewStore(BaseConfig) EXCEPT !.on_hand = h, !.backorder = b] :
        h \in 0..MaxLevel, b \in 0..MaxLevel }

DistributionCenterStates ==
    { [NewDistributionCenter(BaseConfig) EXCEPT !.on_hand = h] : h \in 0..MaxLevel }

\* A direct call: the function, its arguments and the draws the random
\* source would deliver.
DirectCall(fn, probability, delay, receiver, quantity, leadDraw, u) ==
    [phase |-> "called", fn |-> fn, probability |-> probability, delay |-> delay,
     receiver |-> receiver, quantity |-> quantity, leadDraw |-> leadDraw, u |-> u,
     result |-> 0]

DirectCalls ==
    { DirectCall("disruption_delay", p, d, "none", 0, 1, u) :
        p \in {0 - 50, 0, 50, 100, 150}, d \in (0 - 1)..MaxLead, u \in UniformDraws }
    \cup { DirectCall("schedule_inbound_shipment", p, d, r, q, l, u) :
             p \in {0, 50}, d \in {0, 1}, r \in {"store", "dc"}, q \in (0 - 1)..1,
             l \in LeadDraws, u \in UniformDraws }
    \cup { DirectCall(f, 0, 0, "none", q, 1, 0) :
             f \in {"consume_demand", "store_receive", "dc_receive"},
             q \in (0 - 1)..(MaxLevel + 1) }

CallInit ==
    /\ mc = NoMonteCarlo
    /\ api = NoApi
    /\ \/ /\ config \in CallRunConfigs
          /\ Constructed
          /\ call = NoCall
       \/ /\ call \in DirectCalls
          /\ config = [BaseConfig EXCEPT !.lead_time_std_days = 1,
                                         !.disruption_probability_per_shipment = call.probability,
                                         !.disruption_delay_days = call.delay]
          /\ now = 0 /\ queue = NewQueue(config)
          /\ store \in StoreStates /\ dc \in DistributionCenterStates
          /\ day = 0 /\ pc = "start" /\ timeseries = << >> /\ dayLog = << >>
          /\ status = "running" /\ kpis = NoKpis

\* disruption_delay, lines 24-27: ValueError.
DisruptionDelayRaise ==
    /\ call.phase = "called" /\ call.fn = "disruption_delay"
    /\ disruption_raises(call.probability, call.delay)
    /\ call' = [call EXCEPT !.phase = "raised"]
    /\ UNCHANGED <<run, mc, api>>

\* disruption_delay, lines 29-32: the delay is returned, after a draw from
\* the random source unless the call short-circuits.
DisruptionDelayReturn ==
    /\ call.phase = "called" /\ call.fn = "disruption_delay"
    /\ ~disruption_raises(call.probability, call.delay)
    /\ call' = [call EXCEPT !.phase = "returned",
                            !.result = disruption_delay(call.probability, call.delay, call.u)]
    /\ dayLog' = IF disruption_draws(call.probability, call.delay)
                 THEN Append(dayLog, "disruption_draw") ELSE dayLog
    /\ UNCHANGED <<mc, api, config, now, queue, store, dc, day, pc, timeseries, status, kpis>>

\* schedule_inbound_shipment, lines 74-95, on the actors as they are.
ScheduleCall ==
    /\ call.phase = "called" /\ call.fn = "schedule_inbound_shipment"
    /\ LET m == schedule_inbound_shipment(Ctx, call.receiver, call.quantity,
                                          call.leadDraw, call.u)
       IN  /\ store' = m.store
           /\ dc' = m.dc
           /\ queue' = m.queue
           /\ dayLog' = m.log
           /\ call' = [call EXCEPT !.phase = IF m.raised THEN "raised" ELSE "returned"]
    /\ UNCHANGED <<mc, api, config, now, day, pc, timeseries, status, kpis>>

\* Store.consume_demand
ConsumeDemandCall ==
    /\ call.phase = "called" /\ call.fn = "consume_demand"
    /\ store' = consume_demand(store, call.quantity)
    /\ call' = [call EXCEPT !.phase = "returned"]
    /\ UNCHANGED <<mc, api, config, now, queue, dc, day, pc, timeseries, dayLog, status, kpis>>

\* Store.receive
StoreReceiveCall ==
    /\ call.phase = "called" /\ call.fn = "store_receive"
    /\ store' = store_receive(store, call.quantity)
    /\ call' = [call EXCEPT !.phase = "returned"]
    /\ UNCHANGED <<mc, api, config, now, queue, dc, day, pc, timeseries, dayLog, status, kpis>>

\* DistributionCenter.receive
DcReceiveCall ==
    /\ call.phase = "called" /\ call.fn = "dc_receive"
    /\ dc' = dc_receive(dc, call.quantity)
    /\ call' = [call EXCEPT !.phase = "returned"]
    /\ UNCHANGED <<mc, api, config, now, queue, store, day, pc, timeseries, dayLog, status, kpis>>

\* A step of a run, in which the actors are called by run_single.
RunStep == call = NoCall /\ Next

CallNext ==
    \/ DisruptionDelayRaise
    \/ DisruptionDelayReturn
    \/ ScheduleCall
    \/ ConsumeDemandCall
    \/ StoreReceiveCall
    \/ DcReceiveCall
    \/ RunStep

CallSpec == CallInit /\ [][CallNext]_vars

\* ------------------------------------------------------------- the API
\* The request bodies that pass the validation of SimulationRequest: the
\* fields are within the ranges of SimulationConfigIn (which do not relate s
\* to S) and replications is at least 1.
ApiConfigs ==
    LET c == [BaseConfig EXCEPT !.demand_lambda_per_day = 0, !.initial_on_hand_store = 0,
                                !.lead_time_mean_days = 1]
    IN  {c, [c EXCEPT !.s_store = c.S_store + 1]}

ApiReplications == 1..MaxReplications

NoPayload == [type |-> "none"]

\* start_simulation, lines 149-157: the record of a new job.
NewJob(job_id) ==
    [job_id |-> job_id, status |-> "running", progress |-> [num |-> 0, den |-> 1],
     created_at |-> "iso", finished_at |-> "none", result |-> NoPayload, error |-> "none"]

\* The thread of job j is at position p of run_job.
ThreadAt(j, p) == j \in 1..Len(api.threads) /\ api.threads[j].pc = p

\* start_simulation, lines 144-158: the job is registered under the lock.
\* The job id is a fresh uuid, here the next index of the registry.
PostCreate ==
    /\ api.post.pc = "idle"
    /\ Len(api.jobs) < MaxJobs
    /\ \E cfg \in ApiConfigs, r \in ApiReplications :
          LET j == Len(api.jobs) + 1
          IN  api' = [api EXCEPT !.jobs = Append(@, NewJob(j)),
                                 !.threads = Append(@, [pc |-> "new", config |-> cfg,
                                                        replications |-> r,
                                                        payload |-> NoPayload]),
                                 !.post = [pc |-> "created", job |-> j]]
    /\ UNCHANGED <<run, call, mc>>

\* start_simulation, line 203: the background thread is started.
PostStartThread ==
    /\ api.post.pc = "created"
    /\ api' = [api EXCEPT !.threads[api.post.job].pc = "ready",
                          !.post.pc = "started"]
    /\ UNCHANGED <<run, call, mc>>

\* start_simulation, lines 205-206: the job is read under the lock and
\* returned as the response.
PostReturn ==
    /\ api.post.pc = "started"
    /\ api' = [api EXCEPT !.response = [kind |-> "post", code |-> 200,
                                        job |-> api.post.job,
                                        body |-> api.jobs[api.post.job]],
                          !.post = [pc |-> "idle", job |-> 0]]
    /\ UNCHANGED <<run, call, mc>>

\* get_simulation, lines 210-217: the job is read under the lock, or 404.
GetSimulation ==
    /\ \E j \in 1..MaxJobs :
          api' = [api EXCEPT !.response =
                      IF j \in 1..Len(api.jobs)
                      THEN [kind |-> "get", code |-> 200, job |-> j, body |-> api.jobs[j]]
                      ELSE [kind |-> "get", code |-> 404, job |-> j, body |-> NoPayload]]
    /\ UNCHANGED <<run, call, mc>>

\* run_job, lines 162-163: replications = 1, run_single is called.  The
\* simulation state is local to the thread; one thread at a time is followed
\* through its simulation.
JobRunSingle ==
    /\ api.running = 0
    /\ \E j \in 1..Len(api.threads) :
          /\ api.threads[j].pc = "ready" /\ api.threads[j].replications = 1
          /\ api' = [api EXCEPT !.threads[j].pc = "run_single", !.running = j]
          /\ config' = api.threads[j].config
          /\ queue' = NewQueue(api.threads[j].config)
          /\ store' = NewStore(api.threads[j].config)
          /\ dc' = NewDistributionCenter(api.threads[j].config)
    /\ now' = 0 /\ day' = 0 /\ pc' = "start" /\ timeseries' = << >> /\ dayLog' = << >>
    /\ status' = "running" /\ kpis' = NoKpis
    /\ UNCHANGED <<call, mc>>

\* run_job, lines 170-179: replications > 1, monte_carlo is called with the
\* progress callback.
JobMonteCarlo ==
    /\ api.running = 0
    /\ \E j \in 1..Len(api.threads) :
          /\ api.threads[j].pc = "ready" /\ api.threads[j].replications # 1
          /\ api' = [api EXCEPT !.threads[j].pc = "monte_carlo", !.running = j]
          /\ mc' = [phase |-> "called", config |-> api.threads[j].config,
                    replications |-> api.threads[j].replications, progress_cb |-> TRUE,
                    i |-> 0, samples |-> << >>, runs |-> << >>, progress |-> << >>,
                    result |-> NoResult]
    /\ UNCHANGED <<run, call>>

\* A step of run_single in the job's thread.
JobRunSingleStep ==
    /\ ThreadAt(api.running, "run_single")
    /\ Next

\* A step of monte_carlo in the job's thread.
JobMonteCarloStep ==
    /\ ThreadAt(api.running, "monte_carlo")
    /\ MonteCarloNext

\* The simulation of the running job has returned / has raised.
JobSimulationReturned ==
    \/ ThreadAt(api.running, "run_single") /\ status = "returned"
    \/ ThreadAt(api.running, "monte_carlo") /\ mc.phase = "returned"

JobSimulationRaised ==
    \/ ThreadAt(api.running, "run_single") /\ status = "raised"
    \/ ThreadAt(api.running, "monte_carlo") /\ mc.phase = "raised"

\* run_single or monte_carlo has been left: its locals are gone (the
\* variables are back at the values they have when no simulation runs).
JobLocalsDropped ==
    /\ config' = BaseConfig
    /\ now' = 0
    /\ queue' = NewQueue(BaseConfig)
    /\ store' = NewStore(BaseConfig)
    /\ dc' = NewDistributionCenter(BaseConfig)
    /\ day' = 0 /\ pc' = "start" /\ timeseries' = << >> /\ dayLog' = << >>
    /\ status' = "running" /\ kpis' = NoKpis
    /\ mc' = NoMonteCarlo
    /\ UNCHANGED call

\* run_job, lines 164-168 and 180-183: the payload of the result.
JobPayload ==
    IF api.threads[api.running].replications = 1
    THEN [type |-> "single", kpis |-> kpis, timeseries |-> timeseries, config |-> config]
    ELSE [type |-> "monte_carlo", summary |-> mc.result.summary, config |-> mc.result.config]

\* The update that sets the progress to 1.0 also marks the job complete.
JobSetProgress_CompletesEarly ==
    /\ JobSimulationReturned
    /\ api' = [set_job_progress(api, api.running, [num |-> 1, den |-> 1])
                   EXCEPT !.jobs[api.running].status = "complete",
                          !.threads[api.running].pc = "finishing",
                          !.threads[api.running].payload = JobPayload,
                          !.running = 0]
    /\ JobLocalsDropped

\* run_job, lines 164-169 and 180-184: the payload is built and the progress
\* of the job is set to 1.0.
JobSetProgress ==
    /\ JobSimulationReturned
    /\ api' = [set_job_progress(api, api.running, [num |-> 1, den |-> 1])
                   EXCEPT !.threads[api.running].pc = "finishing",
                          !.threads[api.running].payload = JobPayload,
                          !.running = 0]
    /\ JobLocalsDropped

\* The status is written on its own, the other fields of the update are not.
JobSetComplete_StatusOnly ==
    /\ \E j \in 1..Len(api.threads) :
          /\ api.threads[j].pc = "finishing"
          /\ api' = [api EXCEPT !.jobs[j].status = "complete",
                                !.threads[j].pc = "done"]
    /\ UNCHANGED <<run, call, mc>>

\* run_job, lines 186-191: the job is completed.
JobSetComplete ==
    /\ \E j \in 1..Len(api.threads) :
          /\ api.threads[j].pc = "finishing"
          /\ api' = [api EXCEPT !.jobs[j].status = "complete",
                                !.jobs[j].finished_at = "iso",
                                !.jobs[j].result = api.threads[j].payload,
                                !.threads[j].pc = "done"]
    /\ UNCHANGED <<run, call, mc>>

\* The exception ends the thread and the job is left as it is.
JobSetError_ThreadDies ==
    /\ JobSimulationRaised
    /\ api' = [api EXCEPT !.threads[api.running].pc = "done", !.running = 0]
    /\ JobLocalsDropped

\* run_job, lines 192-201: the exception is caught and the job is failed.
JobSetError ==
    /\ JobSimulationRaised
    /\ api' = [api EXCEPT !.jobs[api.running].status = "error",
                          !.jobs[api.running].finished_at = "iso",
                          !.jobs[api.running].error = "ValueError",
                          !.threads[api.running].pc = "done",
                          !.running = 0]
    /\ JobLocalsDropped

\* The steps of the background threads.
JobThreads ==
    \/ JobRunSingle
    \/ JobMonteCarlo
    \/ JobRunSingleStep
    \/ JobMonteCarloStep
    \/ JobSetProgress
    \/ JobSetComplete
    \/ JobSetError

\* The steps of the request handlers.
Requests ==
    \/ PostCreate
    \/ PostStartThread
    \/ PostReturn
    \/ GetSimulation

ApiInit ==
    /\ config = BaseConfig
    /\ Constructed
    /\ call = NoCall
    /\ mc = NoMonteCarlo
    /\ api = NoApi

ApiNext == Requests \/ JobThreads

ApiSpec == ApiInit /\ [][ApiNext]_vars

\* The threads are scheduled: a started handler runs on and the background
\* threads take their steps.
ApiFairSpec ==
    /\ ApiSpec
    /\ WF_vars(PostStartThread)
    /\ WF_vars(JobThreads)

\* ------------------------------------------------------------------ claims
\* C1: in every state of a run, and in every recorded row, store on_hand,
\* backorder and on_order and DC on_hand and on_order are >= 0: ship_to_store
\* never takes more than the DC has on hand and consume_demand never takes
\* more than the store has on hand.
C1_InventoryNonNegative ==
    /\ store.on_hand >= 0 /\ store.backorder >= 0 /\ store.on_order >= 0
    /\ dc.on_hand >= 0 /\ dc.on_order >= 0
    /\ \A i \in 1..Len(timeseries) :
          /\ timeseries[i].store_on_hand >= 0 /\ timeseries[i].store_backorder >= 0
          /\ timeseries[i].store_on_order >= 0
          /\ timeseries[i].dc_on_hand >= 0 /\ timeseries[i].dc_on_order >= 0

\* C1 witness: a row is recorded on a day on which demand emptied the store
\* (part of it unmet) and the DC shipped all it had against a larger request.
C1_Witness ==
    /\ pc = "yield"
    /\ store.on_hand = 0 /\ store.stockout_days > 0
    /\ dc.on_hand = 0 /\ config.initial_on_hand_dc > 0
    /\ store.on_order > 0 /\ store.backorder > store.on_order

\* C2: 0 <= fulfilled_units <= demand_units after any sequence of days; the
\* fill_rate of a completed run is in [0,1], and is 1.0 when demand_units = 0.
C2_FillRateRange ==
    /\ 0 <= store.fulfilled_units /\ store.fulfilled_units <= store.demand_units
    /\ status = "returned" =>
          /\ kpis.fill_rate.den > 0
          /\ 0 <= kpis.fill_rate.num /\ kpis.fill_rate.num <= kpis.fill_rate.den
          /\ kpis.demand_units = 0 => kpis.fill_rate.num = kpis.fill_rate.den
          /\ kpis.demand_units > 0 =>
                kpis.fill_rate = [num |-> store.fulfilled_units, den |-> store.demand_units]

\* C2 witness: a completed run whose demand was only partly fulfilled.
C2_Witness ==
    /\ status = "returned"
    /\ 0 < kpis.fulfilled_units /\ kpis.fulfilled_units < kpis.demand_units

\* C2 witness of the zero-demand convention.
C2_WitnessNoDemand ==
    status = "returned" /\ kpis.demand_units = 0 /\ config.demand_lambda_per_day > 0

\* C3: stockout_days grows only in the demand step, by exactly 1 iff the
\* day's demand exceeded the on_hand it met; so it never exceeds the number of
\* days simulated and the service_level of a completed run is in [0,1].
C3_StockoutStep ==
    /\ store'.stockout_days # store.stockout_days => pc = "demand"
    /\ pc = "demand" /\ pc' = "clear" =>
          LET demand == store'.demand_units - store.demand_units
          IN  store'.stockout_days =
                  store.stockout_days + (IF demand > store.on_hand THEN 1 ELSE 0)

\* The number of days whose demand has been drawn and consumed.
C3_DaysConsumed ==
    IF pc = "start" THEN 0 ELSE IF pc = "demand" THEN day ELSE day + 1

C3_StockoutBound ==
    /\ store.stockout_days >= 0
    /\ store.stockout_days <= C3_DaysConsumed
    /\ status = "returned" =>
          /\ kpis.service_level.den > 0
          /\ 0 <= kpis.service_level.num
          /\ kpis.service_level.num <= kpis.service_level.den
          /\ kpis.service_level.num = config.days - store.stockout_days

C3_StockoutDays == [][C3_StockoutStep]_vars /\ []C3_StockoutBound

\* C3 witness: a day whose unmet demand was 2 units counted as one stock-out day.
C3_Witness ==
    /\ pc = "clear" /\ day = 0
    /\ store.backorder = 2 /\ store.stockout_days = 1

\* C5: order_up_to_sS fails exactly when s > S; otherwise the result is
\* max(0, S - ip) for ip <= s and 0 for ip > s, is never negative, and a
\* positive result q brings the position to S exactly (ip + q = S).
C5_OrderUpTo ==
    /\ call.phase = "raised" => call.s > call.S
    /\ call.phase = "returned" =>
          /\ call.s <= call.S
          /\ call.ip <= call.s => call.result = Max(0, call.S - call.ip)
          /\ call.ip > call.s => call.result = 0
          /\ call.result >= 0
          /\ call.result > 0 => call.ip + call.result = call.S

\* C5 witness: a position below s is ordered up to S.
C5_Witness ==
    /\ call.phase = "returned"
    /\ call.ip = 0 - 1 /\ call.s = 1 /\ call.S = 3 /\ call.result = 4

\* C5 witness of the failure on s > S.
C5_WitnessRaised == call.phase = "raised" /\ call.ip = 0 /\ call.s = 2 /\ call.S = 1

\* The statements of one day in the order the claim gives them, by the
\* position of daily_process before each of them.
C6_Order == <<"demand", "clear", "store_sS", "dc_sS", "record", "yield", "suspended">>

C6_IsStatement(x) ==
    x \in {"consume_demand", "ship_backorder", "policy_store", "policy_dc", "record", "timeout"}

C6_IsDraw(x) == x \in {"demand_draw", "lead_draw", "disruption_draw"}

C6_IsSchedule(x) == x = "schedule"

\* The statements a whole day logs; the backorder shipment only on a day that has a backorder.
C6_FullDay(withBackorder) ==
    <<"consume_demand">> \o (IF withBackorder THEN <<"ship_backorder">> ELSE << >>)
        \o <<"policy_store", "policy_dc", "record", "timeout">>

C6_Done(p) == (CHOOSE i \in 1..Len(C6_Order) : C6_Order[i] = p) - 1

\* The draws one scheduled shipment consumes under the run's configuration.
C6_ShipmentDraws ==
    (IF config.lead_time_std_days # 0 THEN <<"lead_draw">> ELSE << >>)
    \o (IF config.disruption_probability_per_shipment # 0 /\ config.disruption_delay_days # 0
        THEN <<"disruption_draw">> ELSE << >>)

RECURSIVE C6_Repeat(_, _)
C6_Repeat(s, n) == IF n = 0 THEN << >> ELSE s \o C6_Repeat(s, n - 1)

C6_DayState ==
    /\ pc = "start" => dayLog = << >>
    /\ pc \in {"demand", "clear", "store_sS", "dc_sS", "record", "yield", "suspended"} =>
          /\ \E b \in BOOLEAN :
                /\ b => C6_Done(pc) >= 2
                /\ SelectSeq(dayLog, C6_IsStatement)
                     = SubSeq(C6_FullDay(b), 1,
                              IF C6_Done(pc) <= 1 THEN C6_Done(pc)
                              ELSE C6_Done(pc) - 1 + (IF b THEN 1 ELSE 0))
          /\ SelectSeq(dayLog, C6_IsDraw)
               = (IF pc = "demand" THEN << >> ELSE <<"demand_draw">>)
                 \o C6_Repeat(C6_ShipmentDraws, Len(SelectSeq(dayLog, C6_IsSchedule)))
          /\ pc # "demand" => dayLog[1] = "demand_draw" /\ dayLog[2] = "consume_demand"
          /\ pc # "suspended" => now = day * TicksPerDay
          /\ Len(timeseries) = day + (IF pc \in {"yield", "suspended"} THEN 1 ELSE 0)
    /\ pc \in {"record", "yield"} =>
          \/ inventory_position(dc) > config.s_dc
          \/ inventory_position(dc) = config.S_dc

C6_DayStep ==
    /\ pc # pc' /\ pc' # "failed" =>
          \/ \E i \in 1..(Len(C6_Order) - 1) :
                pc = C6_Order[i] /\ pc' = C6_Order[i + 1] /\ day' = day /\ now' = now
          \/ pc = "start" /\ pc' = "demand" /\ day' = 0 /\ now' = 0
          \/ pc = "suspended" /\ pc' = "demand" /\ day' = day + 1
                /\ now' = (day + 1) * TicksPerDay
    /\ pc = "dc_sS" /\ pc' = "record" =>
          (dc'.orders_placed # dc.orders_placed <=> inventory_position(dc) <= config.s_dc
                                                    /\ inventory_position(dc) < config.S_dc)

\* C6: every day runs its statements exactly once and in the fixed order
\* demand and consume_demand, backorder shipment, store (s,S) and shipment, DC
\* (s,S) on the DC stock already reduced by the day's shipments, the row, the
\* advance of time by one day; the day's draws are the demand, then for each
\* scheduled shipment its lead time followed by its disruption draw.
C6_DayOrder == []C6_DayState /\ [][C6_DayStep]_vars

\* C6 witness: a day that shipped a backorder, a store order and a DC order,
\* each with a lead-time and a disruption draw, has recorded its row.
C6_Witness ==
    /\ pc = "suspended"
    /\ dayLog = <<"demand_draw", "consume_demand",
                  "ship_backorder", "lead_draw", "disruption_draw", "schedule",
                  "policy_store", "ship_order", "lead_draw", "disruption_draw", "schedule",
                  "policy_dc", "lead_draw", "disruption_draw", "schedule",
                  "record", "timeout">>

\* An arrival that is scheduled and not yet applied: its process is
\* registered or waits on its timeout.
C7_Pending(e) == e.kind \in {"init_arrival", "arrival"}

C7_Due(e) == e.time + e.delay

\* C7: when day k's demand is about to be drawn, every scheduled arrival due
\* at or before time k has been applied, arrivals due exactly at k included.
C7_DueArrivalsBeforeDemand ==
    pc = "demand" =>
        \A i \in 1..Len(queue) : C7_Pending(queue[i]) => C7_Due(queue[i]) > now

\* What the code does guarantee: arrivals due strictly before time k are applied.
C7_EarlierArrivalsBeforeDemand ==
    pc = "demand" =>
        \A i \in 1..Len(queue) : C7_Pending(queue[i]) => C7_Due(queue[i]) >= now

RECURSIVE PendingQty(_, _, _)
PendingQty(q, receiver, i) ==
    IF i > Len(q) THEN 0
    ELSE (IF C7_Pending(q[i]) /\ q[i].recv = receiver THEN q[i].qty ELSE 0)
         + PendingQty(q, receiver, i + 1)

C8_HorizonState ==
    /\ status = "returned" =>
          /\ Len(timeseries) = config.days
          /\ \A i \in 1..Len(timeseries) : timeseries[i].day = i - 1
          /\ store.on_order = PendingQty(queue, "store", 1)
          /\ dc.on_order = PendingQty(queue, "dc", 1)
    /\ status = "running" => ENABLED Next
    /\ ValidConfig(config) /\ config.s_store <= config.S_store /\ config.s_dc <= config.S_dc
          => status # "raised"
    /\ Len(timeseries) <= config.days

\* C8: a run with days >= 1 ends after exactly `days` iterations, with the rows
\* of days 0..days-1 in order; once it has returned nothing is applied any
\* more, so arrivals pending at the horizon stay in on_order, without error.
C8_Horizon == []C8_HorizonState /\ [][status = "running"]_vars

\* C8 witness: a run of two days returned with arrivals to both locations pending.
C8_Witness ==
    /\ status = "returned" /\ config.days = 2 /\ Len(timeseries) = 2
    /\ store.on_order > 0 /\ dc.on_order > 0
    /\ \E i \in 1..Len(queue) : queue[i].kind = "arrival" /\ queue[i].time = now

\* C9: in every reachable state each location's on_order is the sum of the
\* quantities of its scheduled arrivals that are not yet applied.
C9_OnOrderIsPipeline ==
    /\ store.on_order = PendingQty(queue, "store", 1)
    /\ dc.on_order = PendingQty(queue, "dc", 1)

\* What the code does guarantee: the equality holds as long as no statement
\* of the run has raised.
C9_OnOrderIsPipelineUnlessRaised ==
    pc # "failed" => C9_OnOrderIsPipeline

\* C10: a configuration with days >= 1 and s > S for a location, a negative
\* demand intensity, a lead-time mean <= 0, a lead-time std < 0, a disruption
\* probability outside [0,1] or a negative disruption delay never returns a result.
C10_InvalidConfigNeverReturns ==
    (~ValidConfig(config) \/ config.s_store > config.S_store \/ config.s_dc > config.S_dc)
        => status # "returned"

\* What the code does guarantee: s > S for a location and a negative demand
\* intensity are rejected by every run.
C10_PolicyAndIntensityRejected ==
    (config.s_store > config.S_store \/ config.s_dc > config.S_dc
        \/ config.demand_lambda_per_day < 0)
        => status # "returned" /\ timeseries = << >>

\* The actors as run_single builds them: nothing consumed, ordered or received.
C11_InitialActors ==
    /\ store.on_hand = config.initial_on_hand_store
    /\ store.backorder = 0 /\ store.on_order = 0
    /\ store.demand_units = 0 /\ store.fulfilled_units = 0
    /\ store.stockout_days = 0 /\ store.orders_placed = 0
    /\ dc.on_hand = config.initial_on_hand_dc
    /\ dc.backorder = 0 /\ dc.on_order = 0 /\ dc.orders_placed = 0

\* C11: when a run is rejected with a validation error (policy s > S or an
\* invalid sampler parameter), at the moment of the raise every inventory
\* field and every counter of both actors still has its initial value.
C11_EagerValidation ==
    pc = "failed" => C11_InitialActors

\* What the code does guarantee: a negative demand intensity is rejected
\* before anything is mutated (the first statement of day 0 draws the demand).
C11_IntensityRejectedFirst ==
    pc = "failed" /\ config.demand_lambda_per_day < 0 => C11_InitialActors

\* The call of monte_carlo has neither returned nor raised.
MonteCarloActive == mc.phase \in {"called", "loop", "replication"}

\* C12: monte_carlo called with replications < 1 fails with an error before
\* running any replication and before invoking the progress callback.
C12_RejectsBeforeAnyRun ==
    mc.replications < 1 =>
        /\ mc.phase \in {"called", "raised"}
        /\ mc.phase = "called" => ENABLED MonteCarloReject
        /\ mc.runs = << >> /\ mc.samples = << >> /\ mc.progress = << >>
        /\ mc.result = NoResult
        /\ pc = "start" /\ status = "running"

\* C12 witness: a call with zero replications and a callback has raised.
C12_Witness ==
    mc.phase = "raised" /\ mc.replications = 0 /\ mc.progress_cb

C13_ConfigsState ==
    /\ \A k \in 1..Len(mc.runs) :
          /\ [mc.runs[k] EXCEPT !.seed = mc.config.seed] = mc.config
          /\ mc.config.seed.present =>
                /\ mc.runs[k].seed.present
                /\ mc.runs[k].seed.value = mc.config.seed.value + (k - 1)
          /\ ~mc.config.seed.present => ~mc.runs[k].seed.present
    /\ mc.phase = "replication" =>
          Len(mc.runs) = mc.i + 1 /\ config = mc.runs[Len(mc.runs)]
    /\ mc.phase = "returned" =>
          mc.result.config = mc.config /\ Len(mc.runs) = mc.replications

C13_ConfigsStep ==
    /\ mc'.config = mc.config
    /\ mc'.replications = mc.replications
    /\ mc.phase = "replication" /\ mc'.phase = "replication" => config' = config

\* C13: replication i runs with a configuration equal to the base
\* configuration in every field but the seed, which is base seed + i when the
\* base seed is present and absent otherwise; the base configuration is never
\* modified and is the configuration of the MonteCarloResult.
C13_ReplicationConfigs == []C13_ConfigsState /\ [][C13_ConfigsStep]_vars

\* C13 witness: two replications of a seeded call have run and the call returned.
C13_Witness ==
    /\ mc.phase = "returned" /\ mc.replications = 2
    /\ mc.config.seed = Seed(MaxLevel)
    /\ mc.runs[1].seed = Seed(MaxLevel) /\ mc.runs[2].seed = Seed(MaxLevel + 1)

\* C13 witness of the unseeded call.
C13_WitnessUnseeded ==
    /\ mc.phase = "returned" /\ mc.replications = 2
    /\ mc.config.seed = NoSeed /\ mc.runs[2].seed = NoSeed

C14_SamplesState ==
    /\ mc.phase = "returned" =>
          /\ Len(mc.result.samples) = mc.replications
          /\ mc.result.samples = mc.samples
          /\ mc.result.summary.replications = mc.replications
          /\ Len(mc.runs) = mc.replications
    /\ mc.phase # "returned" => mc.result = NoResult
    /\ mc.replications >= 1 /\ status = "raised" => mc.phase \in {"replication", "raised"}
    /\ MonteCarloActive => ENABLED MonteCarloNext
    /\ mc.replications >= 1 /\ MonteCarloActive =>
          Len(mc.samples) = mc.i /\ Len(mc.samples) <= mc.replications

C14_SamplesStep ==
    /\ mc'.samples # mc.samples =>
          /\ mc.phase = "replication" /\ status = "returned"
          /\ Len(mc.runs) = Len(mc.samples) + 1
          /\ mc'.samples = Append(mc.samples, kpis)
    /\ mc.phase = "replication" /\ status = "raised" =>
          mc'.phase = "raised" /\ mc'.result = NoResult
    /\ mc.phase \in {"raised", "returned"} => mc' = mc

\* C14: on return samples holds exactly R KPI records, samples[i] being the
\* KPIs of replication i, and summary.replications = R; if a replication
\* fails the whole call fails with no result, no sample being skipped.
C14_AllOrNothing == []C14_SamplesState /\ [][C14_SamplesStep]_vars

\* C14 witness: replication 0 succeeded, replication 1 failed, the call raised.
C14_Witness ==
    /\ mc.phase = "raised" /\ mc.replications = 2
    /\ Len(mc.samples) = 1 /\ Len(mc.runs) = 2 /\ status = "raised"

\* C14 witness of the complete result.
C14_WitnessReturned ==
    mc.phase = "returned" /\ mc.replications = 2 /\ Len(mc.result.samples) = 2

\* p < q for two quotients with positive denominators.
C15_Less(p, q) == p.num * q.den < q.num * p.den

C15_ProgressState ==
    /\ mc.replications >= 1 /\ mc.progress_cb =>
          /\ Len(mc.progress) = Len(mc.samples)
          /\ mc.phase = "replication" => Len(mc.progress) = Len(mc.runs) - 1
          /\ mc.phase = "loop" => Len(mc.progress) = Len(mc.runs)
          /\ \A k \in 1..Len(mc.progress) :
                /\ mc.progress[k].den = mc.replications
                /\ mc.progress[k].num = k
                /\ 0 < mc.progress[k].num /\ mc.progress[k].num <= mc.progress[k].den
                /\ k > 1 => C15_Less(mc.progress[k - 1], mc.progress[k])
          /\ mc.phase = "returned" =>
                /\ Len(mc.progress) = mc.replications
                /\ mc.progress[Len(mc.progress)].num = mc.progress[Len(mc.progress)].den
    /\ mc.replications >= 1 /\ ~mc.progress_cb => mc.progress = << >>

C15_ProgressStep ==
    mc'.progress # mc.progress =>
        /\ mc.phase = "replication" /\ status = "returned"
        /\ mc'.phase = "loop"
        /\ Len(mc'.progress) = Len(mc.progress) + 1

\* C15: with a progress callback and all replications succeeding, the
\* callback is invoked exactly R times, the i-th time after replication i has
\* completed and before replication i+1 starts, with value (i+1)/R: the
\* values increase strictly, lie in (0,1], and the last one is exactly 1.
C15_Progress == []C15_ProgressState /\ [][C15_ProgressStep]_vars

\* C15 witness: a call with a callback returned after two replications.
C15_Witness ==
    /\ mc.phase = "returned" /\ mc.progress_cb /\ mc.replications = 2
    /\ mc.progress = << [num |-> 1, den |-> 2], [num |-> 2, den |-> 2] >>

C16_IsDisruptionDraw(x) == x = "disruption_draw"

C16_NoDrawStep ==
    /\ call.phase = "called" /\ call.fn = "disruption_delay" /\ call'.phase # "called" =>
          /\ call'.phase = "returned" => call'.result = 0 \/ call'.result = call.delay
          /\ call.probability = 0 \/ call.delay = 0 =>
                /\ dayLog' = dayLog
                /\ call'.phase = "returned" => call'.result = 0
                /\ call.probability >= 0 /\ call.probability <= 100 /\ call.delay >= 0
                      => call'.phase = "returned"
          /\ UNCHANGED <<store, dc, queue>>
    /\ call.phase = "called" /\ call.fn = "schedule_inbound_shipment"
          /\ call.quantity <= 0 /\ call'.phase # "called" =>
          /\ call'.phase = "returned"
          /\ UNCHANGED <<store, dc, queue, dayLog, now>>

\* In a run whose disruption probability or delay is 0 no shipment consumes a
\* disruption draw.
C16_NoDrawInRun ==
    call = NoCall
        /\ (config.disruption_probability_per_shipment = 0 \/ config.disruption_delay_days = 0)
        => SelectSeq(dayLog, C16_IsDisruptionDraw) = << >>

\* C16: disruption_delay returns only 0 or delay_days, and with probability 0
\* or delay_days 0 it returns 0 without consuming a draw of the random
\* source; scheduling a shipment of quantity <= 0 is skipped entirely: no
\* lead-time or disruption draw, no change of state.
C16_ShortCircuits == [][C16_NoDrawStep]_vars /\ []C16_NoDrawInRun

\* C16 witness: a call with probability 0 and a positive delay has returned 0
\* and the random source was not read.
C16_Witness ==
    /\ call.phase = "returned" /\ call.fn = "disruption_delay"
    /\ call.probability = 0 /\ call.delay > 0 /\ call.result = 0 /\ dayLog = << >>

\* C16 witness of the skipped shipment.
C16_WitnessSkipped ==
    /\ call.phase = "returned" /\ call.fn = "schedule_inbound_shipment"
    /\ call.quantity = 0 /\ store.on_order = 0 /\ dayLog = << >>

\* C16 witness of a call that draws.
C16_WitnessDraw ==
    /\ call.phase = "returned" /\ call.fn = "disruption_delay"
    /\ call.result > 0 /\ dayLog = <<"disruption_draw">>

\* The effect the claim gives for consume_demand(qty) on the store s.
C17_Effect(s, after, demand_qty) ==
    LET qty == IF demand_qty >= 0 THEN demand_qty ELSE 0
        f == IF s.on_hand <= qty THEN s.on_hand ELSE qty
    IN  /\ after.demand_units = s.demand_units + qty
        /\ after.fulfilled_units = s.fulfilled_units + f
        /\ after.on_hand = s.on_hand - f
        /\ after.backorder = s.backorder + (qty - f)
        /\ after.on_order = s.on_order
        /\ after.orders_placed = s.orders_placed
        /\ after.on_hand > 0 => f = qty

C17_ConsumeStep ==
    /\ call.phase = "called" /\ call.fn = "consume_demand" /\ call'.phase # "called" =>
          C17_Effect(store, store', call.quantity) /\ dc' = dc
    /\ call = NoCall /\ pc = "demand" /\ pc' = "clear" =>
          C17_Effect(store, store', store'.demand_units - store.demand_units) /\ dc' = dc

\* C17: consume_demand(qty), with qty clamped to >= 0 and f = min(on_hand,
\* qty), adds qty to demand_units and f to fulfilled_units, takes f from
\* on_hand, adds qty - f to backorder and leaves on_order and orders_placed
\* alone; so on_hand > 0 after the call means the whole demand was fulfilled.
C17_ConsumeDemand == [][C17_ConsumeStep]_vars

\* C17 witness: a demand one above the stock emptied the store and left one
\* unit on backorder.
C17_Witness ==
    /\ call.phase = "returned" /\ call.fn = "consume_demand"
    /\ call.quantity = MaxLevel + 1
    /\ store.demand_units = MaxLevel + 1 /\ store.fulfilled_units = MaxLevel
    /\ store.on_hand = 0 /\ store.backorder = 1

\* C17 witness of the clamp.
C17_WitnessNegative ==
    /\ call.phase = "returned" /\ call.fn = "consume_demand"
    /\ call.quantity < 0 /\ store.demand_units = 0

\* The effect the claim gives for Store.receive(q) on the store s.
C18_StoreEffect(s, after, q) ==
    IF q <= 0 THEN after = s
    ELSE LET u == IF s.backorder <= q THEN s.backorder ELSE q
         IN  /\ after.backorder = s.backorder - u
             /\ after.on_hand = s.on_hand + (q - u)
             /\ after.on_hand > s.on_hand => after.backorder = 0
             /\ after = [s EXCEPT !.backorder = after.backorder, !.on_hand = after.on_hand]

C18_ReceiveStep ==
    /\ call.phase = "called" /\ call.fn = "store_receive" /\ call'.phase # "called" =>
          C18_StoreEffect(store, store', call.quantity) /\ dc' = dc
    /\ call.phase = "called" /\ call.fn = "dc_receive" /\ call'.phase # "called"
          /\ call.quantity > 0 =>
          dc' = [dc EXCEPT !.on_hand = dc.on_hand + call.quantity] /\ store' = store
    /\ call = NoCall /\ Stepping /\ HeadEvent.kind = "arrival" /\ queue' # queue =>
          IF HeadEvent.recv = "store"
          THEN /\ C18_StoreEffect([store EXCEPT !.on_order = @ - HeadEvent.qty], store',
                                  HeadEvent.qty)
               /\ dc' = dc
          ELSE /\ dc' = [dc EXCEPT !.on_order = @ - HeadEvent.qty,
                                   !.on_hand = @ + HeadEvent.qty]
               /\ store' = store

\* C18: Store.receive(q) is a no-op for q <= 0; for q > 0 it clears backorder
\* first (u = min(backorder, q)), on_hand growing by q - u only once the
\* backorder is 0; DistributionCenter.receive(q), q > 0, only adds q to
\* on_hand; the DC backorder is 0 throughout every run.
C18_Receive == [][C18_ReceiveStep]_vars /\ [](dc.backorder = 0)

\* C18 witness: a delivery one above the backorder cleared it and left one
\* unit on hand.
C18_Witness ==
    /\ call.phase = "returned" /\ call.fn = "store_receive"
    /\ call.quantity = MaxLevel + 1 /\ store.backorder = 0 /\ store.on_hand = 1

\* C18 witness in a run: an arrival at the store met a backorder.
C18_WitnessRun ==
    /\ call = NoCall /\ Stepping /\ HeadEvent.kind = "arrival" /\ HeadEvent.recv = "store"
    /\ store.backorder > HeadEvent.qty

\* The arrivals to the store registered by a step: the events the step appended.
C19_Scheduled(q, after) ==
    [i \in 1..(Len(after) - Len(q)) |-> after[Len(q) + i]]

C19_ReorderStep ==
    pc = "store_sS" /\ pc' = "dc_sS" =>
        LET ip == store.on_hand + store.on_order - store.backorder
            q == IF ip <= config.s_store /\ config.S_store - ip > 0
                 THEN config.S_store - ip ELSE 0
            sh == IF dc.on_hand <= q THEN dc.on_hand ELSE q
            new == C19_Scheduled(queue, queue')
        IN  /\ q > 0 =>
                  /\ store'.orders_placed = store.orders_placed + 1
                  /\ dc'.on_hand = dc.on_hand - sh
                  /\ store'.on_order = store.on_order + sh
                  /\ store'.backorder = store.backorder + (q - sh)
                  /\ sh > 0 =>
                        /\ Len(new) = 1
                        /\ new[1].kind = "init_arrival" /\ new[1].recv = "store"
                        /\ new[1].qty = sh /\ new[1].time = now
                  /\ sh = 0 => new = << >>
            /\ q = 0 =>
                  /\ store'.orders_placed = store.orders_placed
                  /\ dc'.on_hand = dc.on_hand
                  /\ store'.on_order = store.on_order
                  /\ store'.backorder = store.backorder
                  /\ new = << >>
            /\ store'.on_hand = store.on_hand
            /\ SubSeq(queue', 1, Len(queue)) = queue

\* C19: on a day where the policy returns q > 0 for the store, the store's
\* order counter grows by exactly 1 (also when the DC ships nothing), the DC
\* ships sh = min(DC on_hand, q), which leaves DC on_hand and is scheduled as
\* an arrival to the store, and q - sh is added to store backorder; when the
\* policy returns 0 the step changes none of them.
C19_StoreReorder == [][C19_ReorderStep]_vars

\* C19 witness: the store has ordered from an empty DC: the order is counted,
\* nothing is shipped and the whole quantity is on backorder.
C19_Witness ==
    /\ pc = "dc_sS" /\ day = 0
    /\ store.orders_placed = 1 /\ dc.on_hand = 0 /\ config.initial_on_hand_dc = 0
    /\ store.on_order = 0 /\ store.backorder > 0 /\ store.demand_units = 0

\* C19 witness of a partial shipment.
C19_WitnessPartial ==
    /\ pc = "dc_sS" /\ day = 0 /\ store.orders_placed = 1
    /\ config.initial_on_hand_store = 0 /\ config.initial_on_hand_dc = 3
    /\ store.demand_units = 2 /\ dc.on_hand = 0
    /\ store.on_order = 3 /\ store.backorder = 4

\* Job j is registered.
C20_Created(j) == j \in 1..Len(api.jobs)

\* The request of job j asked for one replication of a configuration that
\* run_single accepts.
C20_ValidSingle(j) ==
    /\ C20_Created(j)
    /\ api.threads[j].replications = 1
    /\ ValidConfig(api.threads[j].config)
    /\ api.threads[j].config.s_store <= api.threads[j].config.S_store
    /\ api.threads[j].config.s_dc <= api.threads[j].config.S_dc

C20_CompleteSingle(j) ==
    /\ C20_Created(j)
    /\ api.jobs[j].status = "complete"
    /\ api.jobs[j].result.type = "single"
    /\ "kpis" \in DOMAIN api.jobs[j].result

C20_Finished(j) ==
    C20_Created(j) /\ api.jobs[j].status \in {"complete", "error"}

\* C20: with the threads scheduled fairly, every job created by
\* start_simulation eventually leaves "running" for "complete" or "error";
\* with a valid configuration and replications = 1 it eventually is
\* "complete" with a result of type "single" containing kpis.
C20_JobsFinish ==
    \A j \in 1..MaxJobs :
        /\ C20_Created(j) ~> C20_Finished(j)
        /\ C20_ValidSingle(j) ~> C20_CompleteSingle(j)

\* C20 witness: a job of one replication is complete with its KPIs.
C20_Witness ==
    /\ C20_ValidSingle(1) /\ C20_CompleteSingle(1)
    /\ api.jobs[1].result.kpis.total_orders_store = 1
    /\ api.jobs[1].progress = [num |-> 1, den |-> 1]

\* C20 witnesses of a failed job and of a Monte Carlo job.
C20_WitnessError ==
    C20_Created(1) /\ api.jobs[1].status = "error" /\ api.jobs[1].error = "ValueError"

C20_WitnessMonteCarlo ==
    /\ C20_Created(1) /\ api.jobs[1].status = "complete"
    /\ api.jobs[1].result.type = "monte_carlo"
    /\ api.jobs[1].result.summary.replications = 2

\* The job record start_simulation registers: status "running", progress
\* 0.0, no result, no error, not finished.
C21_Initial(body) ==
    /\ body.status = "running"
    /\ body.progress.num = 0
    /\ body.result = NoPayload
    /\ body.error = "none"
    /\ body.finished_at = "none"

\* C21: under every interleaving of the request thread with the job's
\* thread, the JobStatus the POST returns is the job's initial status.
C21_PostReturnsInitialStatus ==
    api.response.kind = "post" => C21_Initial(api.response.body)

\* What the code does guarantee: the record is the initial one when it is
\* registered and until the thread has been started.
C21_InitialUntilStarted ==
    api.post.pc = "created" => C21_Initial(api.jobs[api.post.job])

\* A job record as a reader may see it.
C22_Consistent(body) ==
    /\ body.status \in {"running", "complete", "error"}
    /\ body.status = "running" =>
          /\ body.result = NoPayload
          /\ body.error = "none"
          /\ body.finished_at = "none"
    /\ body.status = "complete" =>
          /\ body.result # NoPayload
          /\ body.error = "none"
          /\ body.finished_at # "none"
          /\ body.progress.num = body.progress.den
    /\ body.status = "error" =>
          /\ body.error # "none"
          /\ body.result = NoPayload
          /\ body.finished_at # "none"

\* C22: every read of a job, by get_simulation or by the response of
\* start_simulation, at whatever point of the job's thread it takes the lock,
\* sees a consistent record: running with no result, error or finish time,
\* complete with a result, no error, a finish time and progress 1.0, or error
\* with an error, no result and a finish time.
C22_ReadsAreConsistent ==
    /\ \A j \in 1..Len(api.jobs) : C22_Consistent(api.jobs[j])
    /\ (api.response.kind \in {"post", "get"} /\ api.response.code = 200)
          => C22_Consistent(api.response.body)

\* A GET has read a complete job.
C22_Witness ==
    /\ api.response.kind = "get"
    /\ api.response.code = 200
    /\ api.response.body.status = "complete"
    /\ api.response.body.result.type = "single"

\* A GET has read a failed job.
C22_WitnessError ==
    /\ api.response.kind = "get"
    /\ api.response.code = 200
    /\ api.response.body.status = "error"

\* A GET has read a job whose progress is 1.0 and which is still running.
C22_WitnessBetweenUpdates ==
    /\ api.response.kind = "get"
    /\ api.response.code = 200
    /\ api.response.body.status = "running"
    /\ api.response.body.progress.num = api.response.body.progress.den

\* p <= q for progress values kept as fractions.
C26_LessEq(p, q) == p.num * q.den <= q.num * p.den

\* A progress value lies in [0,1].
C26_InUnit(p) == p.num >= 0 /\ p.den > 0 /\ p.num <= p.den

\* In every state the progress of every job, and of every job read, is in
\* [0,1].
C26_LifecycleState ==
    /\ \A j \in 1..Len(api.jobs) : C26_InUnit(api.jobs[j].progress)
    /\ (api.response.kind \in {"post", "get"} /\ api.response.code = 200)
          => C26_InUnit(api.response.body.progress)

\* One step of the service: no job leaves the registry or changes its
\* identifier, a status changes only from running to complete or to error, a
\* finished record is left as it is, progress does not decrease, and a read
\* that follows a read of the same job does not see a smaller progress.
C26_LifecycleStep ==
    /\ Len(api'.jobs) >= Len(api.jobs)
    /\ \A j \in 1..Len(api.jobs) :
          /\ api'.jobs[j].job_id = api.jobs[j].job_id
          /\ api'.jobs[j].status # api.jobs[j].status =>
                /\ api.jobs[j].status = "running"
                /\ api'.jobs[j].status \in {"complete", "error"}
          /\ api.jobs[j].status \in {"complete", "error"} =>
                api'.jobs[j] = api.jobs[j]
          /\ C26_LessEq(api.jobs[j].progress, api'.jobs[j].progress)
    /\ ( /\ api.response.kind \in {"post", "get"} /\ api.response.code = 200
         /\ api'.response.kind \in {"post", "get"} /\ api'.response.code = 200
         /\ api'.response.job = api.response.job )
          => C26_LessEq(api.response.body.progress, api'.response.body.progress)

\* C26: a job's status only moves from running to complete or from running to
\* error; once complete or error no field of its record changes; the progress
\* seen by successive reads of one job never decreases and stays in [0,1];
\* a job once created is never removed from the registry.
C26_JobLifecycle == []C26_LifecycleState /\ [][C26_LifecycleStep]_vars

\* A read of a running job at progress 1/2 is followed by a read of the same
\* job, complete at progress 1.0.
C26_Witness ==
    /\ api.response.kind = "get"
    /\ api.response.code = 200
    /\ api.response.body.status = "running"
    /\ api.response.body.progress.num * 2 = api.response.body.progress.den
    /\ api.jobs[api.response.job].status = "complete"
    /\ api.jobs[api.response.job].progress.num = api.jobs[api.response.job].progress.den

\* A job has failed and has been read in that state.
C26_WitnessError ==
    /\ api.response.kind = "get"
    /\ api.response.code = 200
    /\ api.response.body.status = "error"
    /\ api.response.body.progress.num = 0

\* The quantity in transit to the store that the statement `by` shipped.
RECURSIVE C23_InTransit(_, _)
C23_InTransit(q, by) ==
    IF q = << >> THEN 0
    ELSE (IF /\ q[1].kind \in {"init_arrival", "arrival"}
             /\ q[1].recv = "store"
             /\ q[1].by = by
          THEN q[1].qty ELSE 0) + C23_InTransit(Tail(q), by)

\* C23: in every state of a run, the quantity in transit to the store that
\* the backorder-clearing statement shipped is at most the store's backorder.
C23_ClearingShipsOnlyOwed ==
    C23_InTransit(queue, "ship_backorder") <= store.backorder

\* The second half of C23 on its own: one clearing step never ships units
\* whose earlier clearing shipment is still in transit.
C23_ClearStep ==
    ( /\ pc = "clear" /\ pc' = "store_sS"
      /\ C23_InTransit(queue', "ship_backorder") > C23_InTransit(queue, "ship_backorder") )
        => C23_InTransit(queue', "ship_backorder") <= store.backorder

C23_NoSecondShipment == [][C23_ClearStep]_vars

\* What the clearing statement does guarantee: one call ships at most the
\* backorder of that moment.
C23_ShipsAtMostBackorderStep ==
    (pc = "clear" /\ pc' = "store_sS") =>
        C23_InTransit(queue', "ship_backorder") - C23_InTransit(queue, "ship_backorder")
            <= store.backorder

C23_ShipsAtMostBackorder == [][C23_ShipsAtMostBackorderStep]_vars

\* The step applies a due arrival to its destination.
C24_IsArrival == Stepping /\ HeadEvent.kind = "arrival" /\ queue' = RestEvents

\* An arrival changes the fields it is meant to change and leaves the
\* inventory position of both actors as it was.
C24_ArrivalStep ==
    C24_IsArrival =>
        /\ inventory_position(store') = inventory_position(store)
        /\ inventory_position(dc') = inventory_position(dc)
        /\ HeadEvent.recv = "store" => store'.on_order = store.on_order - HeadEvent.qty
        /\ HeadEvent.recv = "dc" => /\ dc'.on_order = dc.on_order - HeadEvent.qty
                                    /\ dc'.on_hand = dc.on_hand + HeadEvent.qty

\* The statements that change a position: consume_demand lowers the store's
\* by the demand, a DC shipment lowers the DC's and (scheduled as an arrival)
\* raises the store's by the shipped quantity, the unshipped remainder lowers
\* the store's, and the DC's own order raises the DC's.
C24_PositionStep ==
    LET dStore == inventory_position(store') - inventory_position(store)
        dDc == inventory_position(dc') - inventory_position(dc)
    IN  /\ dStore # 0 => pc \in {"demand", "clear", "store_sS"}
        /\ dDc # 0 => pc \in {"clear", "store_sS", "dc_sS"}
        /\ pc = "demand" => dStore = - (store'.demand_units - store.demand_units)
        /\ pc = "clear" => /\ dStore = store'.on_order - store.on_order
                           /\ dDc = - (dc.on_hand - dc'.on_hand)
        /\ pc = "store_sS" => /\ dStore = (store'.on_order - store.on_order)
                                           - (store'.backorder - store.backorder)
                              /\ dDc = - (dc.on_hand - dc'.on_hand)
        /\ pc = "dc_sS" => dDc = dc'.on_order - dc.on_order

\* C24: applying a scheduled arrival leaves the inventory position of the
\* store and of the DC unchanged; a position changes only through demand
\* consumption, a DC shipment, the scheduling of a new arrival and the
\* addition of an unshipped remainder to the store's backorder.
C24_ArrivalKeepsPosition == [][C24_ArrivalStep /\ C24_PositionStep]_vars

\* An arrival has reached the store and cleared a backorder, with units left
\* over for the shelf.
C24_Witness ==
    /\ store.stockout_days > 0
    /\ store.backorder = 0
    /\ store.on_hand > 0
    /\ store.on_order > 0

\* An arrival has reached the DC.
C24_WitnessDc ==
    /\ dc.on_hand > config.initial_on_hand_dc
    /\ dc.orders_placed > 0

\* In every state of a run with s_dc <= S_dc: the DC's on_hand + on_order is
\* at most max(initial_on_hand_dc, S_dc), every recorded row has it above
\* s_dc or equal to S_dc, and the DC has placed at most one order per day
\* begun (none yet on the current day before the DC's statement).
C25_DcState ==
    config.s_dc <= config.S_dc =>
        /\ dc.on_hand + dc.on_order <= Max(config.initial_on_hand_dc, config.S_dc)
        /\ \A i \in 1..Len(timeseries) :
              \/ timeseries[i].dc_on_hand + timeseries[i].dc_on_order > config.s_dc
              \/ timeseries[i].dc_on_hand + timeseries[i].dc_on_order = config.S_dc
        /\ dc.orders_placed <=
              (IF pc = "start" THEN 0
               ELSE IF pc \in {"demand", "clear", "store_sS", "dc_sS"} THEN day
               ELSE day + 1)

\* A step in which the DC places an order leaves its position at S_dc, the
\* counter grows by one at most, and only the DC's statement places orders.
C25_DcStep ==
    config.s_dc <= config.S_dc =>
        /\ dc'.orders_placed \in {dc.orders_placed, dc.orders_placed + 1}
        /\ dc'.orders_placed # dc.orders_placed =>
              /\ pc = "dc_sS"
              /\ dc.on_hand + dc.on_order <= config.s_dc
              /\ dc'.on_hand + dc'.on_order = config.S_dc

\* C25: for s_dc <= S_dc the DC position on_hand + on_order never exceeds
\* max(initial_on_hand_dc, S_dc); at every recorded row it is > s_dc or equal
\* to S_dc; right after the DC places an order it is exactly S_dc; and the DC
\* order counter grows by at most 1 per day.
C25_DcPosition == []C25_DcState /\ [][C25_DcStep]_vars

\* The DC has ordered on both days and a row records the position S_dc.
C25_Witness ==
    /\ config.s_dc <= config.S_dc
    /\ dc.orders_placed = 2
    /\ Len(timeseries) = 2
    /\ timeseries[1].dc_on_hand + timeseries[1].dc_on_order = config.S_dc

\* A DC that started above S_dc has shipped and not ordered: a row records a
\* position above s_dc that is not S_dc.
C25_WitnessOverstocked ==
    /\ config.initial_on_hand_dc > config.S_dc
    /\ Len(timeseries) >= 1
    /\ timeseries[1].dc_on_hand + timeseries[1].dc_on_order > config.s_dc
    /\ timeseries[1].dc_on_hand + timeseries[1].dc_on_order # config.S_dc
    /\ dc.orders_placed = 0

====
